---- MODULE Spec2Model ----
(***************************************************************************)
(* The tool-call dispatcher, the backend client and the membership tracer  *)
(* of grouper-mcp (src/index.js, the read-only server that starts at line  *)
(* 1311 of the file).                                                      *)
(*                                                                         *)
(* One request is served at a time.  Every `await grouperRequest(...)` is  *)
(* two steps: the step that issues the request (it ends the handler's      *)
(* synchronous run and puts the request in `pending`) and the step that    *)
(* resumes the handler with the backend's response.  The backend is not    *)
(* part of the program: each response is any response of the documented    *)
(* envelope, chosen anew for every call.                                   *)
(*                                                                         *)
(* Group names are compared only for equality by the code, so they are     *)
(* numbered: the requested group is 0 and a response may name any group    *)
(* already named in the trace or the next unused numbers.                  *)
(***************************************************************************)
EXTENDS Integers, Sequences, FiniteSets, TLC

VARIABLES
  pc,            \* position of the request: idle, top_fetch, handler_fetch, tracing, done, exited
  tool,          \* name of the tool of the request being served
  stack,         \* activation records of traceMembershipRecursive, innermost last
  heap,          \* the Set objects allocated for `visited`, by reference
  retval,        \* value a finished traceMembershipRecursive hands to its caller
  pending,       \* backend requests issued and not yet answered
  calls,         \* number of backend requests issued for this request
  invocations,   \* number of invocations of traceMembershipRecursive for this request
  fresh,         \* smallest group number not yet named in the trace
  composites,    \* number of composite definitions the backend has reported to the tracer
  effectives,    \* number of effective memberships the backend has reported to the tracer
  topMembership, \* membershipType read by handleTraceMembership from its own fetch
  rootFacts,     \* what the backend answered to the tracer's invocation for the requested group
  outcome,       \* how the call-tool promise settled: none, returned, rejected
  response,      \* the value the call-tool promise was fulfilled with
  http,          \* the HTTP response the last completed fetch received
  input          \* arguments and backend data of a directly called handler or helper

vars == <<pc, tool, stack, heap, retval, pending, calls, invocations, fresh,
          composites, effectives, topMembership, rootFacts, outcome, response,
          http, input>>

---------------------------------------------------------------------------
(* Program constants and bounds *)

MAX_DEPTH == 5

MaxGroupId == 7
MaxList == 2
MaxComposite == 1
MaxEffectiveWithComposite == 1

MAX_RESPONSE_SIZE == 50000
DEFAULT_PAGE_SIZE == 25
DocumentedPageSize == 50

MaxItems == 60
MaxMemberships == 2
MaxNameLen == 2
LargeItem == 2000
SmallItem == 900

Min(a, b) == IF a < b THEN a ELSE b
Max(a, b) == IF a > b THEN a ELSE b

GROUP_SOURCE == "g:gsa"

---------------------------------------------------------------------------
(* JavaScript values *)

Null == [type |-> "null"]
NoRet == [type |-> "pending"]
NoResponse == [content |-> "none"]
NoHttp == [connected |-> FALSE, ok |-> FALSE, json |-> FALSE, status |-> -1]
NoInput == [kind |-> "none"]
NoFacts ==
  [type |-> "none", detail |-> [hasComposite |-> "F"], subjectGroups |-> {},
   targetGroups |-> {}, targetSubjects |-> {}, targetGroupMembers |-> <<>>,
   allGroups |-> {}]

\* a JSON string: a value that has no properties
JsString(s) == [string |-> s]

Truthy(v) == v.type # "null"
HasTruthy(obj, f) == f \in DOMAIN obj /\ Truthy(obj[f])

---------------------------------------------------------------------------
(* The backend's responses *)

GroupNames == 0 .. Min(fresh + 1, MaxGroupId)

\* names not yet used in the trace are introduced in order: `fresh` first
InOrder(names) == (fresh + 1) \in names => fresh \in names

\* response.status of a response whose `ok` is false
ErrorStatuses == {404, 500}

\* a fetch that rejects, an error status with a JSON or an HTML body, and a
\* success status with a body that is not JSON; `body` stands for the text
HttpFailures ==
  { [connected |-> FALSE, ok |-> FALSE, json |-> FALSE, status |-> 0, body |-> "none"] }
  \cup { [connected |-> TRUE, ok |-> FALSE, json |-> TRUE, status |-> st,
          body |-> "errors"] : st \in ErrorStatuses }
  \cup { [connected |-> TRUE, ok |-> FALSE, json |-> FALSE, status |-> st,
          body |-> "html"] : st \in ErrorStatuses }
  \cup { [connected |-> TRUE, ok |-> TRUE, json |-> FALSE, status |-> 200,
          body |-> "text"] }

Http200(data) ==
  [connected |-> TRUE, ok |-> TRUE, json |-> TRUE, status |-> 200, body |-> data]

\* what the fetch received, without the body
Fetched(resp) ==
  [connected |-> resp.connected, ok |-> resp.ok, json |-> resp.json,
   status |-> resp.status]

MembershipTypes == {"immediate", "effective", "composite", "nonimmediate"}
CompositeTypes == {"complement", "intersection", "union"}

PlainDetail == [hasComposite |-> "F"]

CompositeDetails ==
  { [hasComposite |-> "T", compositeType |-> t,
     leftGroup |-> [name |-> l], rightGroup |-> [name |-> r]] :
       t \in CompositeTypes, l \in GroupNames, r \in GroupNames }

\* The backend reports at most MaxComposite composite definitions in one trace,
\* and in a trace with a composite definition at most MaxEffectiveWithComposite
\* effective memberships.
OffersComposite == composites < MaxComposite /\ effectives <= MaxEffectiveWithComposite
OffersEffective == composites = 0 \/ effectives < MaxEffectiveWithComposite

\* WsGetMembershipsResults for one subject and one group, group detail included
MembershipData ==
  { [wsMemberships |-> <<>>, wsGroups |-> <<>>] }
  \cup { [wsMemberships |-> << [membershipType |-> t] >>,
          wsGroups |-> << [detail |-> PlainDetail] >>] :
            t \in { x \in MembershipTypes : x = "effective" => OffersEffective } }
  \cup { [wsMemberships |-> << [membershipType |-> "composite"] >>,
          wsGroups |-> << [detail |-> d] >>] :
            d \in { c \in CompositeDetails :
                      /\ OffersComposite
                      /\ c.leftGroup.name <= fresh
                      /\ InOrder({c.leftGroup.name, c.rightGroup.name}) } }

\* WsGetMembershipsResults for one subject, no group lookup: the groupName of
\* each membership (a subject has one membership per group)
MembershipListData ==
  { [groupNames |-> s] :
      s \in { x \in SUBSET GroupNames : Cardinality(x) <= MaxList /\ InOrder(x) } }

Member == [name : GroupNames, sourceId : {GROUP_SOURCE, "ldap"}]

RECURSIVE SeqsUpTo(_, _)
SeqsUpTo(S, n) ==
  IF n = 0 THEN { <<>> }
  ELSE LET shorter == SeqsUpTo(S, n - 1)
       IN shorter \cup { Append(q, x) : q \in { p \in shorter : Len(p) = n - 1 }, x \in S }

Range(q) == { q[i] : i \in 1 .. Len(q) }

\* the names of a member list, in its order
Names(members) == [i \in 1 .. Len(members) |-> members[i].name]

\* the group-typed members of a member list, as the backend means them
GroupsAmong(members) ==
  { m.name : m \in { x \in Range(members) : x.sourceId = GROUP_SOURCE } }

\* the individual subjects of a member list, by name
SubjectsAmong(members) ==
  { m.name : m \in { x \in Range(members) : x.sourceId # GROUP_SOURCE } }

\* of two unused names the subject is in, the list names `fresh` first
FirstUnusedFirst(members, subjectGroups) ==
  \A i \in 1 .. Len(members) :
    (/\ {fresh, fresh + 1} \subseteq subjectGroups
     /\ members[i] = [name |-> fresh + 1, sourceId |-> GROUP_SOURCE])
    => \E j \in 1 .. i - 1 : members[j] = [name |-> fresh, sourceId |-> GROUP_SOURCE]

\* WsGetMembersResults for one group: its direct members, each listed once
MembersData(subjectGroups) ==
  { [wsSubjects |-> q] :
      q \in { p \in SeqsUpTo(Member, MaxList) :
                /\ Cardinality(Range(p)) = Len(p)
                /\ FirstUnusedFirst(p, subjectGroups) } }

Responses(datas) == HttpFailures \cup { Http200(d) : d \in datas }

---------------------------------------------------------------------------
(* grouperRequest: one fetch, then classification of the response *)

\* error.message of the errors grouperRequest throws
FetchFailed == [error |-> "fetch failed"]
HtmlError(status, responseText) ==
  [error |-> "Grouper API error (status): Response is HTML, not JSON. Check credentials and URL.",
   status |-> status, first200 |-> responseText]
ParseFailure == [error |-> "Failed to parse response as JSON"]
BackendError(data) == [error |-> "Grouper API error: ", payload |-> data]

grouperRequestIgnoresStatus(resp) ==
  IF ~resp.connected THEN [threw |-> TRUE, message |-> FetchFailed]
  ELSE IF ~resp.json THEN
    IF ~resp.ok
      THEN [threw |-> TRUE, message |-> HtmlError(resp.status, resp.body)]
      ELSE [threw |-> TRUE, message |-> ParseFailure]
  ELSE [threw |-> FALSE, data |-> resp.body]

grouperRequest(resp) ==
  IF ~resp.connected THEN [threw |-> TRUE, message |-> FetchFailed]
  ELSE IF ~resp.json THEN
    IF ~resp.ok
      THEN [threw |-> TRUE, message |-> HtmlError(resp.status, resp.body)]
      ELSE [threw |-> TRUE, message |-> ParseFailure]
  ELSE IF ~resp.ok THEN [threw |-> TRUE, message |-> BackendError(resp.body)]
  ELSE [threw |-> FALSE, data |-> resp.body]

---------------------------------------------------------------------------
(* traceMembershipRecursive: its activation record and its pieces *)

NewFrame(targetGroupName, visited, depth) ==
  [pc |-> "enter", targetGroupName |-> targetGroupName, visited |-> visited,
   depth |-> depth, subjectGroupNames |-> {}, intermediateGroups |-> <<>>,
   compositeDetail |-> [hasComposite |-> "F"], result |-> Null]

Top == stack[Len(stack)]
Pop(s) == SubSeq(s, 1, Len(s) - 1)
SetTop(s, f) == [s EXCEPT ![Len(s)] = f]

\* `new Set()` and `new Set(visited)`: a new object holding a copy of the elements
NewSetHeap(h, elements) == Append(h, elements)
\* the default parameter `visited = new Set()` of the outermost invocation
DefaultVisited(h) == Len(h) + 1

SharedSetRef(h, visited) == visited

NewSetRef(h, visited) == Len(h) + 1

DepthExceededAtTen(depth) == depth > 2 * MAX_DEPTH

DepthExceeded(depth) == depth > MAX_DEPTH

\* visited.has(targetGroupName) and visited.add(targetGroupName)
NeverVisited(visitedSet, targetGroupName) == FALSE

AlreadyVisited(visitedSet, targetGroupName) == targetGroupName \in visitedSet

AddVisitedNever(visitedSet, targetGroupName) == visitedSet

AddVisited(visitedSet, targetGroupName) == visitedSet \cup {targetGroupName}

MaxDepthNodeAsCycle(targetGroupName) ==
  [type |-> "cycle_detected", targetGroup |-> targetGroupName]

MaxDepthNode(targetGroupName) ==
  [type |-> "max_depth_reached", targetGroup |-> targetGroupName]

CycleNode(targetGroupName) ==
  [type |-> "cycle_detected", targetGroup |-> targetGroupName]

ImmediateNode(targetGroupName) ==
  [type |-> "immediate", groupName |-> targetGroupName]

KeepSubjectMembers(targetMembers) ==
  SelectSeq(targetMembers, LAMBDA m : m.sourceId # GROUP_SOURCE)

KeepAllMembers(targetMembers) == targetMembers

\* targetMembers.filter(m => m.sourceId === 'g:gsa')
FilterGroupMembers(targetMembers) ==
  SelectSeq(targetMembers, LAMBDA m : m.sourceId = GROUP_SOURCE)

FirstGroupMember(targetGroupMembers, subjectGroupNames) ==
  IF Len(targetGroupMembers) = 0 THEN <<>>
  ELSE << [name |-> targetGroupMembers[1].name] >>

FindLastIntermediateGroup(targetGroupMembers, subjectGroupNames) ==
  LET hits == { i \in 1 .. Len(targetGroupMembers) :
                  targetGroupMembers[i].name \in subjectGroupNames }
  IN IF hits = {} THEN <<>>
     ELSE LET i == CHOOSE j \in hits : \A k \in hits : j >= k
          IN << [name |-> targetGroupMembers[i].name] >>

\* the loop over targetGroupMembers that pushes the first match and breaks
FindIntermediateGroups(targetGroupMembers, subjectGroupNames) ==
  LET hits == { i \in 1 .. Len(targetGroupMembers) :
                  targetGroupMembers[i].name \in subjectGroupNames }
  IN IF hits = {} THEN <<>>
     ELSE LET i == CHOOSE j \in hits : \A k \in hits : j <= k
          IN << [name |-> targetGroupMembers[i].name] >>

UnresolvedEffectiveNode(targetGroupName, subjectGroupNames, targetGroupMembers) ==
  [type |-> "effective", groupName |-> targetGroupName,
   subjectImmediateGroupCount |-> Cardinality(subjectGroupNames),
   targetImmediateGroupMemberCount |-> Len(targetGroupMembers)]

EffectiveNode(targetGroupName, intermediateGroup, intermediatePath) ==
  [type |-> "effective", groupName |-> targetGroupName,
   intermediateGroup |-> intermediateGroup, chain |-> intermediatePath]

\* allMembershipsList.some(m => m.groupName === group.name)
IsIn(allMembershipsList, group) == group.name \in allMembershipsList

CompositeNodeOneFlag(targetGroupName, detail, isInLeft, isInRight) ==
  [type |-> "composite", groupName |-> targetGroupName,
   compositeType |-> detail.compositeType,
   leftGroup |-> [name |-> detail.leftGroup.name, isMember |-> isInLeft],
   rightGroup |-> [name |-> detail.rightGroup.name, isMember |-> isInLeft]]

CompositeNode(targetGroupName, detail, isInLeft, isInRight) ==
  [type |-> "composite", groupName |-> targetGroupName,
   compositeType |-> detail.compositeType,
   leftGroup |-> [name |-> detail.leftGroup.name, isMember |-> isInLeft],
   rightGroup |-> [name |-> detail.rightGroup.name, isMember |-> isInRight]]

TraceLeftOnlyIntersection(result) ==
  result.compositeType = "intersection" /\ result.leftGroup.isMember

TraceRightAnyType(result) == result.rightGroup.isMember

\* `if (isInLeft)` and `if (compositeType === 'intersection' && isInRight)`
TraceLeft(result) == result.leftGroup.isMember
TraceRight(result) == result.compositeType = "intersection" /\ result.rightGroup.isMember

WithLeftChain(result, chain) ==
  [result EXCEPT !.leftGroup = [chain |-> chain] @@ result.leftGroup]
WithRightChain(result, chain) ==
  [result EXCEPT !.rightGroup = [chain |-> chain] @@ result.rightGroup]

UnknownNode(targetGroupName, membership) ==
  [type |-> "unknown", groupName |-> targetGroupName]

\* the final return: any membership type the branches above did not return for
OtherNode(targetGroupName, membership) ==
  [type |-> membership.membershipType, groupName |-> targetGroupName]

---------------------------------------------------------------------------
(* flattenTracePath.  Reading traceNode.leftGroup.name of a node that has no
   leftGroup throws a TypeError: `threw` is then TRUE. *)

Hops(path) == [threw |-> FALSE, path |-> path]
TypeError == [threw |-> TRUE, path |-> <<>>]

ImmediateHopUntyped(traceNode) ==
  [groupName |-> traceNode.groupName, type |-> "immediate"]

ImmediateHop(traceNode) ==
  [groupName |-> traceNode.groupName, membershipType |-> "immediate"]

EffectiveHopNamesVia(traceNode) ==
  [groupName |-> traceNode.intermediateGroup.name, membershipType |-> "effective",
   viaGroup |-> traceNode.intermediateGroup.name]

EffectiveHop(traceNode) ==
  [groupName |-> traceNode.groupName, membershipType |-> "effective",
   viaGroup |-> traceNode.intermediateGroup.name]

CompositeHopLeftFlagOnly(traceNode, throughLeft, throughRight) ==
  (IF throughLeft THEN [pathThroughLeftGroup |-> TRUE] ELSE <<>>)
  @@ [groupName |-> traceNode.groupName, membershipType |-> "composite",
      compositeType |-> traceNode.compositeType,
      leftGroup |-> JsString(traceNode.leftGroup.name),
      rightGroup |-> JsString(traceNode.rightGroup.name)]

CompositeHop(traceNode, throughLeft, throughRight) ==
  (IF throughLeft THEN [pathThroughLeftGroup |-> TRUE] ELSE <<>>)
  @@ (IF throughRight THEN [pathThroughRightGroup |-> TRUE] ELSE <<>>)
  @@ [groupName |-> traceNode.groupName, membershipType |-> "composite",
      compositeType |-> traceNode.compositeType,
      leftGroup |-> JsString(traceNode.leftGroup.name),
      rightGroup |-> JsString(traceNode.rightGroup.name)]

OtherHopWithVia(traceNode) ==
  (IF "intermediateGroup" \in DOMAIN traceNode
     THEN [viaGroup |-> traceNode.intermediateGroup.name] ELSE <<>>)
  @@ [groupName |-> IF "groupName" \in DOMAIN traceNode
                      THEN traceNode.groupName ELSE traceNode.targetGroup,
      type |-> traceNode.type]

OtherHop(traceNode) ==
  [groupName |-> IF "groupName" \in DOMAIN traceNode
                   THEN traceNode.groupName ELSE traceNode.targetGroup,
   type |-> traceNode.type]

RECURSIVE flattenTracePath(_)
flattenTracePath(traceNode) ==
  IF ~Truthy(traceNode) THEN Hops(<<>>)
  ELSE IF traceNode.type = "immediate" THEN Hops(<< ImmediateHop(traceNode) >>)
  ELSE IF traceNode.type = "effective" /\ HasTruthy(traceNode, "chain") THEN
    LET chainPath == flattenTracePath(traceNode.chain)
    IN IF chainPath.threw THEN TypeError
       ELSE Hops(chainPath.path \o << EffectiveHop(traceNode) >>)
  ELSE IF traceNode.type = "composite" THEN
    IF "leftGroup" \notin DOMAIN traceNode THEN TypeError
    ELSE
      LET throughLeft == HasTruthy(traceNode.leftGroup, "chain")
          throughRight == HasTruthy(traceNode.rightGroup, "chain")
          leftPath == IF throughLeft THEN flattenTracePath(traceNode.leftGroup.chain)
                      ELSE Hops(<<>>)
          rightPath == IF throughRight THEN flattenTracePath(traceNode.rightGroup.chain)
                       ELSE Hops(<<>>)
      IN IF leftPath.threw \/ rightPath.threw THEN TypeError
         ELSE Hops(leftPath.path \o rightPath.path
                   \o << CompositeHop(traceNode, throughLeft, throughRight) >>)
  ELSE Hops(<< OtherHop(traceNode) >>)

---------------------------------------------------------------------------
(* Tool handlers and the call-tool dispatcher *)

\* tools whose handler calls the backend once and returns
BackendTools ==
  {"get_group_members", "get_group_member_count", "find_groups",
   "get_group_privileges", "find_attribute_def_names", "get_subjects",
   "has_member", "get_subject_memberships"}

KnownTools == BackendTools \cup {"trace_membership", "restart_server"}

ToolNames == KnownTools \cup {"no_such_tool"}

\* handlers whose whole body is inside try/catch
HasTryCatch(name) ==
  name \in {"get_group_members", "find_groups", "get_subject_memberships",
            "trace_membership"}

Fulfilled(value) == [state |-> "returned", value |-> value]
Rejected(message) == [state |-> "rejected", value |-> [content |-> [text |-> message]]]

ResultWithoutFlag(prefix, message) ==
  [content |-> [text |-> message, prefix |-> prefix]]

ErrorResult(prefix, message) ==
  [content |-> [text |-> message, prefix |-> prefix], isError |-> TRUE]

IsError(r) == "isError" \in DOMAIN r /\ r.isError

\* a handler's promise when its grouperRequest threw `message`
HandlerFailure(name, message) ==
  IF HasTryCatch(name) THEN Fulfilled(ErrorResult("Error: ", message))
  ELSE Rejected(message)

\* the dispatcher's `return handleX(args)` inside try, without await: the
\* handler's promise is adopted as it is, the catch clause sees only what is
\* thrown before the return
CallToolSettles(handlerPromise) == handlerPromise

Request(kind, groupName) == [kind |-> kind, groupName |-> groupName]

\* `await grouperRequest(...)`: the call is outstanding from the step that
\* issues it to the step that resumes with its response
Issue(outstanding, request) == outstanding \cup {request}

CompleteNothing(outstanding, request) == outstanding

Complete(outstanding, request) == outstanding \ {request}

EffectiveCallsSwapped(targetGroupName) ==
  << Request("members", targetGroupName),
     Request("immediate_memberships", targetGroupName) >>

\* the two calls of the effective branch, in the order of the code
EffectiveCalls(targetGroupName) ==
  << Request("immediate_memberships", targetGroupName),
     Request("members", targetGroupName) >>

NotMemberResult(groupName) ==
  [content |-> [group |-> groupName, isMember |-> FALSE,
                message |-> "Subject is not a member of this group"]]

PathSummary(membershipPath) ==
  IF Len(membershipPath) > 0
    THEN [text |-> "subject -> groups",
          groups |-> [i \in 1 .. Len(membershipPath) |-> membershipPath[i].groupName]]
    ELSE [text |-> "No path available"]

TraceResultOrNotMember(groupName, membershipType, membershipPath) ==
  IF Len(membershipPath) = 0 THEN NotMemberResult(groupName)
  ELSE [content |-> [targetGroup |-> groupName, membershipType |-> membershipType,
                     membershipPath |-> membershipPath,
                     pathSummary |-> PathSummary(membershipPath)]]

TraceResult(groupName, membershipType, membershipPath) ==
  [content |-> [targetGroup |-> groupName, membershipType |-> membershipType,
                membershipPath |-> membershipPath,
                pathSummary |-> PathSummary(membershipPath)]]

TopNeverShortCircuits(wsMemberships) == FALSE

\* `if (!membership) return {isMember: false}` of handleTraceMembership
TopShortCircuits(wsMemberships) == Len(wsMemberships) = 0

\* wsMemberships?.[0], by its membershipType; "absent" stands for undefined
FirstMembership(wsMemberships) ==
  IF Len(wsMemberships) > 0 THEN wsMemberships[1].membershipType ELSE "absent"

---------------------------------------------------------------------------
(* The state machine *)

Init ==
  /\ pc = "idle"
  /\ tool = "none"
  /\ stack = <<>>
  /\ heap = <<>>
  /\ retval = NoRet
  /\ pending = {}
  /\ calls = 0
  /\ invocations = 0
  /\ fresh = 1
  /\ composites = 0
  /\ effectives = 0
  /\ topMembership = "none"
  /\ rootFacts = NoFacts
  /\ outcome = "none"
  /\ response = NoResponse
  /\ http = NoHttp
  /\ input = NoInput

Settle(promise) ==
  /\ pc' = "done"
  /\ outcome' = CallToolSettles(promise).state
  /\ response' = CallToolSettles(promise).value

\* an exception leaves every activation of the tracer and reaches the catch
\* clause of handleTraceMembership
TraceThrows(message) ==
  /\ stack' = <<>>
  /\ retval' = NoRet
  /\ Settle(Fulfilled(ErrorResult("Error tracing membership: ", message)))

\* the call-tool handler up to the first await of the tool's handler
CallTool(name) ==
  /\ pc = "idle"
  /\ tool' = name
  /\ IF name = "trace_membership" THEN
       /\ pc' = "top_fetch"
       /\ pending' = Issue(pending, Request("membership", 0))
       /\ calls' = calls + 1
       /\ UNCHANGED <<outcome, response>>
     ELSE IF name \in BackendTools THEN
       /\ pc' = "handler_fetch"
       /\ pending' = Issue(pending, Request(name, 0))
       /\ calls' = calls + 1
       /\ UNCHANGED <<outcome, response>>
     ELSE IF name = "restart_server" THEN
       /\ pc' = "exited"
       /\ UNCHANGED <<pending, calls, outcome, response>>
     ELSE
       /\ Settle(Fulfilled(ErrorResult("Error: ", [error |-> "Unknown tool"])))
       /\ UNCHANGED <<pending, calls>>
  /\ UNCHANGED <<stack, heap, retval, invocations, fresh, composites,
                 effectives, topMembership, rootFacts>>
  /\ UNCHANGED <<http, input>>

\* a single-call handler resumes with the backend's response
HandlerResponse ==
  /\ pc = "handler_fetch"
  /\ \E resp \in Responses({[results |-> "some"]}) :
       /\ http' = Fetched(resp)
       /\ LET r == grouperRequest(resp)
          IN IF r.threw THEN Settle(HandlerFailure(tool, r.message))
             ELSE Settle(Fulfilled([content |-> [tool |-> tool, data |-> r.data]]))
  /\ pending' = Complete(pending, Request(tool, 0))
  /\ UNCHANGED <<tool, stack, heap, retval, calls, invocations, fresh,
                 composites, effectives, topMembership, rootFacts>>
  /\ UNCHANGED input

\* handleTraceMembership resumes with the response to its own membership fetch
TopMembershipResponse ==
  /\ pc = "top_fetch"
  /\ pending' = Complete(pending, Request("membership", 0))
  /\ \E resp \in Responses(MembershipData) :
       /\ http' = Fetched(resp)
       /\ LET r == grouperRequest(resp)
          IN IF r.threw THEN
               /\ Settle(Fulfilled(ErrorResult("Error tracing membership: ", r.message)))
               /\ UNCHANGED <<stack, heap, invocations, topMembership>>
             ELSE IF TopShortCircuits(r.data.wsMemberships) THEN
               /\ Settle(Fulfilled(NotMemberResult(0)))
               /\ topMembership' = FirstMembership(r.data.wsMemberships)
               /\ UNCHANGED <<stack, heap, invocations>>
             ELSE
               /\ pc' = "tracing"
               /\ topMembership' = FirstMembership(r.data.wsMemberships)
               /\ heap' = NewSetHeap(heap, {})
               /\ stack' = << NewFrame(0, DefaultVisited(heap), 0) >>
               /\ invocations' = invocations + 1
               /\ UNCHANGED <<outcome, response>>
  /\ UNCHANGED <<tool, retval, calls, fresh, composites, effectives, rootFacts>>
  /\ UNCHANGED input

Running == pc = "tracing" /\ stack # <<>>

\* traceMembershipRecursive from its entry to its first await
TraceEnter ==
  /\ Running
  /\ Top.pc = "enter"
  /\ IF DepthExceeded(Top.depth) THEN
       /\ retval' = MaxDepthNode(Top.targetGroupName)
       /\ stack' = Pop(stack)
       /\ UNCHANGED <<heap, pending, calls>>
     ELSE IF AlreadyVisited(heap[Top.visited], Top.targetGroupName) THEN
       /\ retval' = CycleNode(Top.targetGroupName)
       /\ stack' = Pop(stack)
       /\ UNCHANGED <<heap, pending, calls>>
     ELSE
       /\ heap' = [heap EXCEPT ![Top.visited] = AddVisited(@, Top.targetGroupName)]
       /\ pending' = Issue(pending, Request("membership", Top.targetGroupName))
       /\ calls' = calls + 1
       /\ stack' = SetTop(stack, [Top EXCEPT !.pc = "await_membership"])
       /\ UNCHANGED retval
  /\ UNCHANGED <<pc, tool, invocations, fresh, composites, effectives, topMembership,
                 rootFacts, outcome, response>>
  /\ UNCHANGED <<http, input>>

Return(node) ==
  /\ retval' = node
  /\ stack' = Pop(stack)

\* a recursive call: the callee's activation, with its own copy of visited
Recurse(frame, targetGroupName) ==
  /\ heap' = NewSetHeap(heap, heap[frame.visited])
  /\ stack' = Append(SetTop(stack, frame),
                     NewFrame(targetGroupName, NewSetRef(heap, frame.visited),
                              frame.depth + 1))
  /\ invocations' = invocations + 1
  /\ retval' = NoRet

AtRoot == Top.depth = 0

\* the tracer resumes with the response to its membership fetch
MembershipResponse ==
  /\ Running
  /\ Top.pc = "await_membership"
  /\ \E resp \in Responses(MembershipData) :
       /\ http' = Fetched(resp)
       /\ LET r == grouperRequest(resp)
          IN IF r.threw THEN
               /\ TraceThrows(r.message)
               /\ pending' = Complete(pending, Request("membership", Top.targetGroupName))
               /\ UNCHANGED <<calls, composites, effectives, rootFacts, fresh>>
             ELSE
               LET present == Len(r.data.wsMemberships) > 0
                   membership == r.data.wsMemberships[1]
                   detail == r.data.wsGroups[1].detail
                   facts == IF ~AtRoot THEN rootFacts
                            ELSE IF ~present THEN [rootFacts EXCEPT !.type = "absent"]
                            ELSE [rootFacts EXCEPT !.type = membership.membershipType,
                                                   !.detail = detail]
               IN /\ rootFacts' = facts
                  /\ UNCHANGED <<pc, outcome, response>>
                  /\ IF ~present THEN
                       /\ Return(Null)
                       /\ pending' = Complete(pending, Request("membership", Top.targetGroupName))
                       /\ UNCHANGED <<calls, composites, effectives, fresh>>
                     ELSE IF membership.membershipType = "immediate" THEN
                       /\ Return(ImmediateNode(Top.targetGroupName))
                       /\ pending' = Complete(pending, Request("membership", Top.targetGroupName))
                       /\ UNCHANGED <<calls, composites, effectives, fresh>>
                     ELSE IF membership.membershipType = "effective" THEN
                       /\ stack' = SetTop(stack, [Top EXCEPT !.pc = "await_subject"])
                       /\ pending' = Issue(Complete(pending, Request("membership", Top.targetGroupName)),
                                        EffectiveCalls(Top.targetGroupName)[1])
                       /\ calls' = calls + 1
                       /\ effectives' = effectives + 1
                       /\ UNCHANGED <<retval, composites, fresh>>
                     ELSE IF /\ membership.membershipType = "composite"
                             /\ detail.hasComposite = "T" THEN
                       /\ stack' = SetTop(stack, [Top EXCEPT !.pc = "await_all",
                                                             !.compositeDetail = detail])
                       /\ pending' = Issue(Complete(pending, Request("membership", Top.targetGroupName)),
                                        Request("all_memberships", Top.targetGroupName))
                       /\ calls' = calls + 1
                       /\ composites' = composites + 1
                       /\ UNCHANGED effectives
                       /\ fresh' = Max(fresh, 1 + Max(detail.leftGroup.name,
                                                      detail.rightGroup.name))
                       /\ UNCHANGED retval
                     ELSE
                       /\ Return(OtherNode(Top.targetGroupName, membership))
                       /\ pending' = Complete(pending, Request("membership", Top.targetGroupName))
                       /\ UNCHANGED <<calls, composites, effectives, fresh>>
  /\ UNCHANGED <<tool, heap, invocations, topMembership>>
  /\ UNCHANGED input

\* call 1 answered: the subject's immediate memberships
SubjectMembershipsResponse ==
  /\ Running
  /\ Top.pc = "await_subject"
  /\ \E resp \in Responses(MembershipListData) :
       /\ http' = Fetched(resp)
       /\ LET r == grouperRequest(resp)
          IN IF r.threw THEN
               /\ TraceThrows(r.message)
               /\ pending' = Complete(pending, EffectiveCalls(Top.targetGroupName)[1])
               /\ UNCHANGED <<calls, rootFacts>>
             ELSE
               LET subjectGroupNames == r.data.groupNames
               IN /\ stack' = SetTop(stack, [Top EXCEPT !.pc = "await_members",
                                    !.subjectGroupNames = subjectGroupNames])
                  /\ pending' = Issue(Complete(pending, EffectiveCalls(Top.targetGroupName)[1]),
                                  EffectiveCalls(Top.targetGroupName)[2])
                  /\ calls' = calls + 1
                  /\ rootFacts' = IF AtRoot
                                    THEN [rootFacts EXCEPT !.subjectGroups = subjectGroupNames]
                                    ELSE rootFacts
                  /\ UNCHANGED <<pc, retval, outcome, response>>
  /\ UNCHANGED <<tool, heap, invocations, fresh, composites, effectives, topMembership>>
  /\ UNCHANGED input

\* call 2 answered: the target's members; intersection, then return or recurse
TargetMembersResponse ==
  /\ Running
  /\ Top.pc = "await_members"
  /\ pending' = Complete(pending, EffectiveCalls(Top.targetGroupName)[2])
  /\ \E resp \in Responses(MembersData(Top.subjectGroupNames)) :
       /\ http' = Fetched(resp)
       /\ LET r == grouperRequest(resp)
          IN IF r.threw THEN
               /\ TraceThrows(r.message)
               /\ UNCHANGED <<heap, invocations, fresh, rootFacts>>
             ELSE
               LET targetMembers == r.data.wsSubjects
                   targetGroupMembers == FilterGroupMembers(targetMembers)
                   intermediateGroups ==
                     FindIntermediateGroups(targetGroupMembers, Top.subjectGroupNames)
               IN /\ rootFacts' = IF AtRoot
                                    THEN [rootFacts EXCEPT
                                            !.targetGroups = GroupsAmong(targetMembers),
                                            !.targetSubjects = SubjectsAmong(targetMembers),
                                            !.targetGroupMembers =
                                               Names(targetGroupMembers)]
                                    ELSE rootFacts
                  /\ UNCHANGED <<pc, outcome, response>>
                  /\ IF Len(intermediateGroups) = 0 THEN
                       /\ Return(UnresolvedEffectiveNode(Top.targetGroupName,
                                   Top.subjectGroupNames, targetGroupMembers))
                       /\ UNCHANGED <<heap, invocations, fresh>>
                     ELSE
                       /\ Recurse([Top EXCEPT !.pc = "await_chain",
                                              !.subjectGroupNames = {},
                                              !.intermediateGroups = intermediateGroups],
                                  intermediateGroups[1].name)
                       /\ fresh' = Max(fresh, intermediateGroups[1].name + 1)
  /\ UNCHANGED <<tool, calls, composites, effectives, topMembership>>
  /\ UNCHANGED input

\* the recursive call for the intermediate group has returned
ChainReturn ==
  /\ Running
  /\ Top.pc = "await_chain"
  /\ retval # NoRet
  /\ Return(EffectiveNode(Top.targetGroupName, Top.intermediateGroups[1], retval))
  /\ UNCHANGED <<pc, tool, heap, pending, calls, invocations, fresh, composites,
                 effectives, topMembership, rootFacts, outcome, response>>
  /\ UNCHANGED <<http, input>>

\* the subject's full membership list answered: the composite node, then the branches
AllMembershipsResponse ==
  /\ Running
  /\ Top.pc = "await_all"
  /\ pending' = Complete(pending, Request("all_memberships", Top.targetGroupName))
  /\ \E resp \in Responses(MembershipListData) :
       /\ http' = Fetched(resp)
       /\ LET r == grouperRequest(resp)
          IN IF r.threw THEN
               /\ TraceThrows(r.message)
               /\ UNCHANGED <<heap, invocations, rootFacts>>
             ELSE
               LET allMembershipsList == r.data.groupNames
                   detail == Top.compositeDetail
                   result == CompositeNode(Top.targetGroupName, detail,
                                           IsIn(allMembershipsList, detail.leftGroup),
                                           IsIn(allMembershipsList, detail.rightGroup))
               IN /\ rootFacts' = IF AtRoot
                                    THEN [rootFacts EXCEPT !.allGroups = allMembershipsList]
                                    ELSE rootFacts
                  /\ UNCHANGED <<pc, outcome, response>>
                  /\ IF TraceLeft(result) THEN
                       Recurse([Top EXCEPT !.pc = "await_left", !.result = result],
                               detail.leftGroup.name)
                     ELSE IF TraceRight(result) THEN
                       Recurse([Top EXCEPT !.pc = "await_right", !.result = result],
                               detail.rightGroup.name)
                     ELSE
                       /\ Return(result)
                       /\ UNCHANGED <<heap, invocations>>
  /\ UNCHANGED <<tool, calls, fresh, composites, effectives, topMembership>>
  /\ UNCHANGED input

\* the left branch has returned
LeftReturn ==
  /\ Running
  /\ Top.pc = "await_left"
  /\ retval # NoRet
  /\ LET result == WithLeftChain(Top.result, retval)
     IN IF TraceRight(result) THEN
          Recurse([Top EXCEPT !.pc = "await_right", !.result = result],
                  Top.compositeDetail.rightGroup.name)
        ELSE
          /\ Return(result)
          /\ UNCHANGED <<heap, invocations>>
  /\ UNCHANGED <<pc, tool, pending, calls, fresh, composites, effectives, topMembership,
                 rootFacts, outcome, response>>
  /\ UNCHANGED <<http, input>>

\* the right branch has returned
RightReturn ==
  /\ Running
  /\ Top.pc = "await_right"
  /\ retval # NoRet
  /\ Return(WithRightChain(Top.result, retval))
  /\ UNCHANGED <<pc, tool, heap, pending, calls, invocations, fresh, composites,
                 effectives, topMembership, rootFacts, outcome, response>>
  /\ UNCHANGED <<http, input>>

\* handleTraceMembership resumes with the trace: flatten and answer
TraceReturn ==
  /\ pc = "tracing"
  /\ stack = <<>>
  /\ retval # NoRet
  /\ LET flat == flattenTracePath(retval)
     IN IF flat.threw \/ topMembership = "absent"
          THEN Settle(Fulfilled(ErrorResult("Error tracing membership: ", [error |-> "TypeError"])))
          ELSE Settle(Fulfilled(TraceResult(0, topMembership, flat.path)))
  /\ UNCHANGED <<tool, stack, heap, retval, pending, calls, invocations, fresh,
                 composites, effectives, topMembership, rootFacts>>
  /\ UNCHANGED <<http, input>>

\* the server takes the next request: nothing of the last one is kept
NextRequest ==
  /\ pc = "done"
  /\ pc' = "idle"
  /\ tool' = "none"
  /\ stack' = <<>>
  /\ heap' = <<>>
  /\ retval' = NoRet
  /\ pending' = {}
  /\ calls' = 0
  /\ invocations' = 0
  /\ fresh' = 1
  /\ composites' = 0
  /\ effectives' = 0
  /\ topMembership' = "none"
  /\ rootFacts' = NoFacts
  /\ outcome' = "none"
  /\ response' = NoResponse
  /\ http' = NoHttp
  /\ input' = NoInput

Next ==
  \/ \E name \in ToolNames : CallTool(name)
  \/ HandlerResponse
  \/ TopMembershipResponse
  \/ TraceEnter
  \/ MembershipResponse
  \/ SubjectMembershipsResponse
  \/ TargetMembersResponse
  \/ ChainReturn
  \/ AllMembershipsResponse
  \/ LeftReturn
  \/ RightReturn
  \/ TraceReturn
  \/ NextRequest

Spec == Init /\ [][Next]_vars

FairSpec == Spec /\ WF_vars(Next)

---------------------------------------------------------------------------
(* Strings, numbers and JSON text, for the handlers that page and filter *)

\* a string argument or property that may be undefined
Undefined == [defined |-> FALSE]
Str(chars) == [defined |-> TRUE, chars |-> chars]

\* JavaScript truthiness of a string or undefined
StrTruthy(x) == x.defined /\ Len(x.chars) > 0

\* a || b
OrElse(a, b) == IF StrTruthy(a) THEN a ELSE b

Letters == {"a", "A", "b"}

ToLower(c) == IF c = "A" THEN "a" ELSE c

toLowerCaseIdentity(chars) == chars

toLowerCase(chars) == [i \in 1 .. Len(chars) |-> ToLower(chars[i])]

includes(chars, sub) ==
  \E i \in 0 .. Len(chars) - Len(sub) : SubSeq(chars, i + 1, i + Len(sub)) = sub

Digits == {"0", "1", "2", "5"}

DigitValue(c) ==
  CASE c = "0" -> 0 [] c = "1" -> 1 [] c = "2" -> 2 [] c = "3" -> 3 [] c = "4" -> 4
    [] c = "5" -> 5 [] c = "6" -> 6 [] c = "7" -> 7 [] c = "8" -> 8 [] c = "9" -> 9

DigitOf(d) == << "0", "1", "2", "3", "4", "5", "6", "7", "8", "9" >>[d + 1]

\* `${page + 1}`: the decimal numeral of a natural number
RECURSIVE ToDigits(_)
ToDigits(n) ==
  IF n < 10 THEN << DigitOf(n) >>
  ELSE Append(ToDigits(n \div 10), DigitOf(n % 10))

\* parseInt(text, 10) of a string of digits
RECURSIVE parseInt(_)
parseInt(chars) ==
  IF Len(chars) = 0 THEN 0
  ELSE 10 * parseInt(SubSeq(chars, 1, Len(chars) - 1)) + DigitValue(chars[Len(chars)])

JsNumber(n) == [type |-> "number", value |-> n]
Infinity == [type |-> "Infinity"]

\* Math.ceil(totalItems / size) for integers totalItems >= 1 and size >= 0
CeilDiv(totalItems, size) ==
  IF size = 0 THEN Infinity ELSE JsNumber((totalItems + size - 1) \div size)

\* page < totalPages
LessThan(page, totalPages) ==
  totalPages = Infinity \/ page < totalPages.value

sliceInclusive(items, start, end) ==
  LET n == Len(items)
      from == IF start < 0 THEN Max(n + start, 0) ELSE Min(start, n)
      to == IF end < 0 THEN Max(n + end + 1, 0) ELSE Min(end + 1, n)
  IN IF from >= to THEN <<>> ELSE SubSeq(items, from + 1, to)

\* Array.prototype.slice(start, end)
slice(items, start, end) ==
  LET n == Len(items)
      from == IF start < 0 THEN Max(n + start, 0) ELSE Min(start, n)
      to == IF end < 0 THEN Max(n + end, 0) ELSE Min(end, n)
  IN IF from >= to THEN <<>> ELSE SubSeq(items, from + 1, to)

\* JSON.stringify(item).length: an item known only by the length of its text
\* has it in jsonLength; a membership has the properties that are defined,
\* its membershipType being a string known by its length
ItemLength(item) ==
  IF "jsonLength" \in DOMAIN item THEN item.jsonLength
  ELSE LET name == IF item.groupName.defined
                     THEN 14 + Len(item.groupName.chars) ELSE 0
           display == IF item.groupDisplayName.defined
                        THEN 21 + Len(item.groupDisplayName.chars) ELSE 0
           type == 19 + item.membershipType.length
           commas == (IF name > 0 THEN 1 ELSE 0) + (IF display > 0 THEN 1 ELSE 0)
       IN 2 + name + display + type + commas

RECURSIVE SumLengths(_, _)
SumLengths(items, n) ==
  IF n = 0 THEN 0 ELSE SumLengths(items, n - 1) + ItemLength(items[n])

\* JSON.stringify(items).length
JsonLength(items) ==
  2 + SumLengths(items, Len(items)) + (IF Len(items) > 0 THEN Len(items) - 1 ELSE 0)

---------------------------------------------------------------------------
(* chunkResults and handleGetSubjectMemberships after its backend call *)

chunkResults(items, pageNumber, pageSize) ==
  LET page == IF StrTruthy(pageNumber) THEN parseInt(pageNumber.chars) ELSE 1
      size == IF StrTruthy(pageSize) THEN parseInt(pageSize.chars) ELSE DEFAULT_PAGE_SIZE
      totalSize == JsonLength(items)
      totalItems == Len(items)
  IN IF totalSize <= MAX_RESPONSE_SIZE THEN
       [items |-> items, totalItems |-> totalItems, isComplete |-> TRUE,
        pageInfo |-> Null]
     ELSE
       LET startIndex == (page - 1) * size
           endIndex == startIndex + size
           chunkedItems == slice(items, startIndex, endIndex)
           totalPages == CeilDiv(totalItems, size)
       IN [items |-> chunkedItems, totalItems |-> totalItems, isComplete |-> FALSE,
           pageInfo |->
             [type |-> "object", currentPage |-> page, pageSize |-> size,
              totalPages |-> totalPages, totalItems |-> totalItems,
              hasNextPage |-> LessThan(page, totalPages),
              hasPreviousPage |-> page > 1,
              nextPage |-> IF LessThan(page, totalPages) THEN JsNumber(page + 1) ELSE Null,
              previousPage |-> IF page > 1 THEN JsNumber(page - 1) ELSE Null]]

\* a paginating handler's response: the totals, the page and, when the result
\* was chunked, the pagination info
PageResponse(chunked) ==
  (IF Truthy(chunked.pageInfo) THEN [pagination |-> chunked.pageInfo] ELSE <<>>)
  @@ [total |-> chunked.totalItems, count |-> Len(chunked.items),
      items |-> chunked.items]

\* memberships.map(m => ({groupName: m.groupName || m.wsGroup?.name, ...}))
SimplifyMembership(m) ==
  [groupName |-> OrElse(m.groupName,
                        IF m.wsGroup.defined THEN m.wsGroup.name ELSE Undefined),
   groupDisplayName |-> OrElse(m.groupDisplayName,
                               IF m.wsGroup.defined THEN m.wsGroup.displayName
                               ELSE Undefined),
   membershipType |-> m.membershipType]

Simplify(memberships) ==
  [i \in 1 .. Len(memberships) |-> SimplifyMembership(memberships[i])]

\* m.groupName?.toLowerCase().includes(filterLower) || the same of groupDisplayName
MatchesFilter(m, filterLower) ==
  \/ m.groupName.defined /\ includes(toLowerCase(m.groupName.chars), filterLower)
  \/ m.groupDisplayName.defined
       /\ includes(toLowerCase(m.groupDisplayName.chars), filterLower)

handleGetSubjectMemberships(args, memberships) ==
  LET mapped == Simplify(memberships)
      totalBeforeFilter == Len(mapped)
      filtering == StrTruthy(args.groupNameFilter)
      simplifiedMemberships ==
        IF filtering
          THEN LET filterLower == toLowerCase(args.groupNameFilter.chars)
               IN SelectSeq(mapped, LAMBDA m : MatchesFilter(m, filterLower))
          ELSE mapped
      chunked == chunkResults(simplifiedMemberships, args.pageNumber, args.pageSize)
  IN [content |->
        (IF filtering
           THEN [filterApplied |-> args.groupNameFilter,
                 totalBeforeFilter |-> totalBeforeFilter,
                 filteredOut |-> totalBeforeFilter - chunked.totalItems]
           ELSE <<>>)
        @@ (IF Truthy(chunked.pageInfo) THEN [pagination |-> chunked.pageInfo] ELSE <<>>)
        @@ (IF ~filtering /\ chunked.totalItems > 50
              THEN [suggestion |-> "Large result set"] ELSE <<>>)
        @@ [totalMemberships |-> chunked.totalItems,
            membershipCount |-> Len(chunked.items),
            memberships |-> chunked.items]]

---------------------------------------------------------------------------
(* The handlers that page and filter, applied to every input of a bounded set *)

Strings(alphabet, n) == { Str(q) : q \in SeqsUpTo(alphabet, n) }

PageArgs == {Undefined} \cup Strings(Digits, 2)
PageNumbers == {Undefined} \cup Strings({"0", "1", "2", "3"}, 1)

\* n items whose JSON text has the given length each
SizedItems(n, length) == [i \in 1 .. n |-> [id |-> i, jsonLength |-> length]]

PageInputs ==
  { [kind |-> "page", items |-> SizedItems(n, length),
     pageNumber |-> pageNumber, pageSize |-> pageSize] :
      n \in 0 .. MaxItems, length \in {SmallItem, LargeItem},
      pageNumber \in PageNumbers, pageSize \in PageArgs }

\* the memberships of WsGetMembershipsResults
BackendMemberships ==
  [groupName : {Undefined} \cup Strings(Letters, MaxNameLen),
   groupDisplayName : {Undefined, Str(<< "A" >>), Str(<< "b" >>)},
   wsGroup : {Undefined,
              [defined |-> TRUE, name |-> Str(<< "a" >>), displayName |-> Str(<< "b" >>)]},
   membershipType : {[length |-> 9]}]

\* list lengths around a page, and the longest list
ManyMemberships ==
  {DEFAULT_PAGE_SIZE - 1, DEFAULT_PAGE_SIZE, DEFAULT_PAGE_SIZE + 1, MaxItems}

\* a few memberships of any kind, or many copies of one large membership
MembershipLists ==
  SeqsUpTo(BackendMemberships, MaxMemberships)
  \cup { [i \in 1 .. n |-> [m EXCEPT !.membershipType = [length |-> LargeItem]]] :
           n \in ManyMemberships, m \in BackendMemberships }

MembershipsInputs ==
  { [kind |-> "memberships", memberships |-> memberships,
     groupNameFilter |-> groupNameFilter,
     pageNumber |-> Undefined, pageSize |-> Undefined] :
      memberships \in MembershipLists,
      groupNameFilter \in {Undefined} \cup Strings(Letters, MaxNameLen) }

ToolInit ==
  /\ pc = "direct"
  /\ input \in PageInputs \cup MembershipsInputs
  /\ tool = "none"
  /\ stack = <<>>
  /\ heap = <<>>
  /\ retval = NoRet
  /\ pending = {}
  /\ calls = 0
  /\ invocations = 0
  /\ fresh = 1
  /\ composites = 0
  /\ effectives = 0
  /\ topMembership = "none"
  /\ rootFacts = NoFacts
  /\ outcome = "none"
  /\ response = NoResponse
  /\ http = NoHttp

\* a paginating handler chunks its simplified result list
Paginate ==
  /\ pc = "direct"
  /\ input.kind = "page"
  /\ pc' = "done"
  /\ outcome' = "returned"
  /\ response' = [content |-> PageResponse(chunkResults(input.items, input.pageNumber,
                                                        input.pageSize))]
  /\ UNCHANGED <<tool, stack, heap, retval, pending, calls, invocations, fresh,
                 composites, effectives, topMembership, rootFacts, http, input>>

\* handleGetSubjectMemberships resumes with the backend's memberships
GetSubjectMemberships ==
  /\ pc = "direct"
  /\ input.kind = "memberships"
  /\ pc' = "done"
  /\ outcome' = "returned"
  /\ response' = handleGetSubjectMemberships(input, input.memberships)
  /\ UNCHANGED <<tool, stack, heap, retval, pending, calls, invocations, fresh,
                 composites, effectives, topMembership, rootFacts, http, input>>

ToolNext == Paginate \/ GetSubjectMemberships

ToolSpec == ToolInit /\ [][ToolNext]_vars

---------------------------------------------------------------------------
(* Properties *)

TraceDone == pc = "done" /\ tool = "trace_membership"

\* handleTraceMembership answered with a trace
Positive ==
  /\ TraceDone
  /\ outcome = "returned"
  /\ ~IsError(response)
  /\ "membershipPath" \in DOMAIN response.content

Path == response.content.membershipPath

\* the tracer has handed the node for the requested group to handleTraceMembership
RootReturned == tool = "trace_membership" /\ stack = <<>> /\ retval # NoRet

Entering == Running /\ Top.pc = "enter"

\* the target groups of the callers of the innermost invocation
OnPath == { stack[i].targetGroupName : i \in 1 .. Len(stack) - 1 }

\* C1: when the top-level fetch returns zero membership records,
\* handleTraceMembership answers isMember false with the "not a member"
\* message and no error, has not invoked the tracer and has issued exactly
\* one backend call.
C1_AbsentShortCircuits ==
  (tool = "trace_membership" /\ topMembership = "absent") =>
    /\ pc = "done"
    /\ outcome = "returned"
    /\ ~IsError(response)
    /\ response.content.isMember = FALSE
    /\ response.content.message = "Subject is not a member of this group"
    /\ invocations = 0
    /\ calls = 1
    /\ pending = {}

C1_Witness == TraceDone /\ topMembership = "absent" /\ calls = 1

\* C2: the body of the tracer never runs deeper than depth 5 (an invocation at
\* depth 6 returns at once); a trace of effective memberships only issues at
\* most 1 + 3*6 backend calls and always has a next step until it is answered;
\* when the backend reported an effective membership through a group not named
\* before at each of the depths 0..5, the innermost (first) hop of the
\* result is max_depth_reached.
C2_DepthBounded ==
  /\ \A i \in 1 .. Len(stack) :
       /\ stack[i].depth = i - 1
       /\ stack[i].depth <= MAX_DEPTH + 1
       /\ stack[i].pc # "enter" => stack[i].depth <= MAX_DEPTH
  /\ composites = 0 => calls <= 1 + 3 * (MAX_DEPTH + 1)
  /\ pc = "tracing" => ENABLED Next
  /\ (Positive /\ composites = 0 /\ effectives = MAX_DEPTH + 1
        /\ invocations = MAX_DEPTH + 2 /\ fresh = MAX_DEPTH + 2) =>
       /\ Len(Path) = MAX_DEPTH + 2
       /\ Path[1] = [groupName |-> MAX_DEPTH + 1, type |-> "max_depth_reached"]
       /\ \A i \in 2 .. Len(Path) : Path[i].membershipType = "effective"

C2_Witness ==
  /\ Positive
  /\ composites = 0
  /\ effectives = MAX_DEPTH + 1
  /\ invocations = MAX_DEPTH + 2
  /\ fresh = MAX_DEPTH + 2
  /\ Path[1].type = "max_depth_reached"

\* C3 as stated: an invocation for a group that is on the current recursion
\* path returns cycle_detected for it without a backend call.
C3_CycleAlwaysDetected ==
  [][ (Entering /\ Top.targetGroupName \in OnPath) =>
        /\ retval' = CycleNode(Top.targetGroupName)
        /\ calls' = calls ]_vars

\* C3 amended: an invocation for a group that is on the current recursion path
\* returns without a backend call, with cycle_detected for that group when its
\* depth is at most 5 and with max_depth_reached at depth 6, where the depth
\* check comes first.
C3_CycleOrDepthDetected ==
  [][ (Entering /\ Top.targetGroupName \in OnPath) =>
        /\ retval' = IF Top.depth > MAX_DEPTH
                       THEN MaxDepthNode(Top.targetGroupName)
                       ELSE CycleNode(Top.targetGroupName)
        /\ calls' = calls
        /\ pending' = pending
        /\ stack' = Pop(stack) ]_vars

C3_Witness ==
  /\ Running
  /\ retval = CycleNode(0)
  /\ Top.pc = "await_chain"
  /\ Top.depth > 0

\* C4: when the backend reports the membership in the requested group as
\* immediate, membershipPath is exactly one hop, of membershipType immediate,
\* naming the requested group.
C4_ImmediateOneHop ==
  (Positive /\ rootFacts.type = "immediate") =>
    Path = << [groupName |-> 0, membershipType |-> "immediate"] >>

C4_Witness == Positive /\ rootFacts.type = "immediate" /\ Len(Path) = 1

\* the groups that are both among the subject's immediate groups and among the
\* group-typed direct members of the requested group, as the backend answered
RootIntersection == rootFacts.subjectGroups \cap rootFacts.targetGroups

RootEffective == rootFacts.type = "effective"

TwoHops(M) ==
  << [groupName |-> M, membershipType |-> "immediate"],
     [groupName |-> 0, membershipType |-> "effective", viaGroup |-> M] >>

\* C5 as stated: an effective membership whose two immediate sets intersect in
\* exactly one group M is answered with the immediate hop for M followed by
\* the effective hop for the requested group via M.
C5_SingleIntersectionAlwaysTwoHops ==
  \A M \in 0 .. MaxGroupId :
    (Positive /\ RootEffective /\ RootIntersection = {M}) => Path = TwoHops(M)

\* C5 amended: in that case the tracer recurses into M and records it as the
\* intermediate group, and when the membership fetch for M reports immediate
\* the path is the immediate hop for M followed by the effective hop for the
\* requested group via M.
C5_SingleIntersectionTwoHops ==
  \A M \in 0 .. MaxGroupId :
    (Positive /\ RootEffective /\ RootIntersection = {M}) =>
      /\ retval.type = "effective"
      /\ "chain" \in DOMAIN retval
      /\ retval.intermediateGroup = [name |-> M]
      /\ retval.chain = ImmediateNode(M) => Path = TwoHops(M)

C5_Witness ==
  /\ Positive
  /\ RootEffective
  /\ Cardinality(RootIntersection) = 1
  /\ Cardinality(rootFacts.targetGroups) = 2
  /\ "chain" \in DOMAIN retval
  /\ retval.chain.type = "immediate"
  /\ Len(Path) = 2

\* C6: an effective membership whose two immediate sets do not intersect is
\* traced to an effective node without chain whose two counts are the sizes of
\* the two sets, by a single invocation of the tracer, and is answered with
\* exactly one hop.
C6_NoIntersectionUnresolved ==
  (RootReturned /\ RootEffective /\ RootIntersection = {}) =>
    /\ retval.type = "effective"
    /\ retval.groupName = 0
    /\ "chain" \notin DOMAIN retval
    /\ retval.subjectImmediateGroupCount = Cardinality(rootFacts.subjectGroups)
    /\ retval.targetImmediateGroupMemberCount = Cardinality(rootFacts.targetGroups)
    /\ retval.subjectImmediateGroupCount >= 0
    /\ retval.targetImmediateGroupMemberCount >= 0
    /\ invocations = 1
    /\ Len(flattenTracePath(retval).path) = 1
    /\ Positive => Path = << [groupName |-> 0, type |-> "effective"] >>

C6_Witness ==
  /\ Positive
  /\ RootEffective
  /\ RootIntersection = {}
  /\ rootFacts.subjectGroups # {}
  /\ rootFacts.targetGroups # {}
  /\ Len(Path) = 1

RootComposite == rootFacts.type = "composite" /\ rootFacts.detail.hasComposite = "T"

\* the requested group is a composite of the given type, and the subject's
\* full membership list names its left group and not its right group
LeftOnly(compositeType) ==
  /\ RootComposite
  /\ rootFacts.detail.compositeType = compositeType
  /\ rootFacts.detail.leftGroup.name \in rootFacts.allGroups
  /\ rootFacts.detail.rightGroup.name \notin rootFacts.allGroups

LastHop == Path[Len(Path)]

\* C7: for a complement composite with the subject in leftGroup only, the
\* tracer traces the left branch and not the right one, and when the backend
\* confirms the membership in leftGroup the path is the left branch's hops
\* followed by one composite summary hop that has pathThroughLeftGroup true
\* and no pathThroughRightGroup.
C7_ComplementLeftOnly ==
  (Positive /\ LeftOnly("complement")) =>
    /\ "chain" \in DOMAIN retval.leftGroup
    /\ "chain" \notin DOMAIN retval.rightGroup
    /\ Truthy(retval.leftGroup.chain) =>
         /\ Path = flattenTracePath(retval.leftGroup.chain).path
                    \o << [groupName |-> 0, membershipType |-> "composite",
                           compositeType |-> "complement",
                           leftGroup |-> JsString(rootFacts.detail.leftGroup.name),
                           rightGroup |-> JsString(rootFacts.detail.rightGroup.name),
                           pathThroughLeftGroup |-> TRUE] >>
         /\ Len(Path) >= 2

C7_Witness ==
  /\ Positive
  /\ LeftOnly("complement")
  /\ HasTruthy(retval.leftGroup, "chain")
  /\ retval.leftGroup.chain.type = "effective"
  /\ Len(Path) >= 2
  /\ LastHop.pathThroughLeftGroup

\* the scenario of C8: the requested group (0, test:authorized) is the
\* complement of group 1 (test:eligible) and group 2 (test:unauthorized), both
\* membership fetches for it report composite, and the full membership list
\* names group 1 and not group 2
Authorized ==
  /\ topMembership = "composite"
  /\ LeftOnly("complement")
  /\ rootFacts.detail.leftGroup.name = 1
  /\ rootFacts.detail.rightGroup.name = 2

C9_UnionTracesRight ==
  /\ (RootReturned /\ RootComposite /\ rootFacts.detail.compositeType = "union"
        /\ rootFacts.detail.rightGroup.name \in rootFacts.allGroups) =>
       "chain" \in DOMAIN retval.rightGroup
  /\ (Positive /\ RootComposite /\ rootFacts.detail.compositeType = "union"
        /\ rootFacts.detail.rightGroup.name \in rootFacts.allGroups) =>
       "pathThroughRightGroup" \in DOMAIN LastHop

\* C10: every call of a tool settles as a returned result, never as a rejected
\* call, and the call of an unknown tool returns an isError result.
C10_FailuresAreErrorResults ==
  pc = "done" =>
    /\ outcome = "returned"
    /\ tool = "no_such_tool" => IsError(response)

\* the last completed fetch did not yield a parsed value
Failed(h) == h # NoHttp /\ ~(h.connected /\ h.ok /\ h.json)

\* error.message for the HTTP response h
MessageFor(h) ==
  IF ~h.connected THEN FetchFailed
  ELSE IF ~h.json THEN (IF ~h.ok THEN HtmlError(h.status, "html") ELSE ParseFailure)
  ELSE BackendError("errors")

\* C11: the step in which a backend call of a trace fails issues no call and
\* answers the request with an isError result that carries the error message
\* and no path, with no call outstanding and no activation of the tracer left;
\* the only step after the failure is the start of the next request.
C11_FailureAbortsTrace ==
  [][ /\ (tool = "trace_membership" /\ Failed(http')) =>
           /\ calls' = calls
           /\ invocations' = invocations
           /\ pending' = {}
           /\ stack' = <<>>
           /\ pc' = "done"
           /\ outcome' = "returned"
           /\ IsError(response')
           /\ response'.content =
                [text |-> MessageFor(http'), prefix |-> "Error tracing membership: "]
      /\ (tool = "trace_membership" /\ Failed(http)) => pc' = "idle" /\ calls' = 0
    ]_vars

C11_Witness ==
  /\ TraceDone
  /\ Failed(http)
  /\ IsError(response)
  /\ invocations = 3
  /\ calls = 6

\* membership types the tracer has no branch for
OtherType(t) == t \notin {"immediate", "effective", "composite", "absent", "none"}

\* C12: for a membership type other than immediate, effective and composite
\* the tracer returns a node whose type is the raw type string, after its
\* membership fetch and no other call, and the flattener gives exactly one
\* hop for it, naming the requested group.
C12_OtherTypeTerminal ==
  (RootReturned /\ OtherType(rootFacts.type)) =>
    /\ retval = [type |-> rootFacts.type, groupName |-> 0]
    /\ calls = 2
    /\ invocations = 1
    /\ pending = {}
    /\ flattenTracePath(retval) = Hops(<< [groupName |-> 0, type |-> rootFacts.type] >>)
    /\ Positive => Path = << [groupName |-> 0, type |-> rootFacts.type] >>

C12_Witness ==
  /\ Positive
  /\ rootFacts.type = "nonimmediate"
  /\ Len(Path) = 1
  /\ Path[1].type = "nonimmediate"

\* C13: a tool whose handler makes one grouperRequest call makes one fetch; it
\* yields the parsed value exactly when the response is a success with a JSON
\* body, and otherwise fails with the error of the response's class: the
\* backend error with the payload (error status, JSON), the HTML error with
\* the status (error status, not JSON), the parse failure (success, not JSON).
C13_ResponseClassified ==
  (pc = "done" /\ tool \in BackendTools) =>
    /\ calls = 1
    /\ pending = {}
    /\ http # NoHttp
    /\ IF http.connected /\ http.ok /\ http.json
         THEN /\ outcome = "returned"
              /\ ~IsError(response)
              /\ response.content.data = [results |-> "some"]
         ELSE /\ outcome = "rejected" \/ IsError(response)
              /\ "data" \notin DOMAIN response.content
              /\ response.content.text = MessageFor(http)
    /\ (http.connected /\ ~http.ok /\ http.json) =>
         response.content.text = [error |-> "Grouper API error: ", payload |-> "errors"]
    /\ (http.connected /\ ~http.ok /\ ~http.json) =>
         /\ response.content.text.status = http.status
         /\ response.content.text # ParseFailure
    /\ (http.connected /\ http.ok /\ ~http.json) => response.content.text = ParseFailure

C13_Witness ==
  /\ pc = "done"
  /\ tool = "find_groups"
  /\ http.status = 404
  /\ ~http.json
  /\ IsError(response)

\* C17: an invocation at depth 5 or less for a group that is not the target of
\* any of its callers issues its membership fetch and does not return
\* cycle_detected, whatever groups were visited in branches that have returned.
C17_SiblingsDoNotInterfere ==
  [][ (Entering /\ Top.depth <= MAX_DEPTH /\ Top.targetGroupName \notin OnPath) =>
        /\ retval' # CycleNode(Top.targetGroupName)
        /\ calls' = calls + 1
        /\ Len(stack') = Len(stack)
        /\ stack'[Len(stack')].pc = "await_membership"
    ]_vars

\* an intersection whose left branch leads to group 2 through group 1 and
\* whose right branch is group 2, both traced to the immediate membership
C17_Witness ==
  /\ RootReturned
  /\ RootComposite
  /\ rootFacts.detail.compositeType = "intersection"
  /\ rootFacts.detail.rightGroup.name = 2
  /\ HasTruthy(retval.leftGroup, "chain")
  /\ retval.leftGroup.chain.type = "effective"
  /\ HasTruthy(retval.leftGroup.chain, "chain")
  /\ retval.leftGroup.chain.chain = ImmediateNode(2)
  /\ HasTruthy(retval.rightGroup, "chain")
  /\ retval.rightGroup.chain = ImmediateNode(2)

AwaitingBackend ==
  Top.pc \in {"await_membership", "await_subject", "await_members", "await_all"}

\* C18: at most one backend call is outstanding; while the tracer runs, a call
\* is outstanding exactly when the innermost activation awaits a response, it
\* is a call of that activation, and every caller is suspended at its
\* recursive call; an activation that traces its right branch has the left
\* branch's trace in hand.
C18_OneOutstandingCall ==
  /\ Cardinality(pending) <= 1
  /\ pending # {} => calls >= 1
  /\ Running =>
       /\ pending # {} <=> AwaitingBackend
       /\ \A q \in pending : q.groupName = Top.targetGroupName
       /\ \A i \in 1 .. Len(stack) - 1 :
            stack[i].pc \in {"await_chain", "await_left", "await_right"}
       /\ \A i \in 1 .. Len(stack) :
            (stack[i].pc = "await_right" /\ TraceLeft(stack[i].result)) =>
              "chain" \in DOMAIN stack[i].result.leftGroup

C18_Witness ==
  /\ Running
  /\ Len(stack) = 2
  /\ stack[1].pc = "await_right"
  /\ "chain" \in DOMAIN stack[1].result.leftGroup
  /\ Top.pc = "await_membership"
  /\ Cardinality(pending) = 1

\* C19: the step that finds an effective membership issues the request for
\* the subject's immediate memberships; the step that receives them issues
\* the request for the target's members, whatever their number; the step
\* that receives the members issues nothing and returns or recurses once.
C19_TwoCallsInOrder ==
  [][ /\ (Running /\ Top.pc = "await_membership" /\ effectives' = effectives + 1) =>
           /\ calls' = calls + 1
           /\ invocations' = invocations
           /\ pending' = {Request("immediate_memberships", Top.targetGroupName)}
           /\ Len(stack') = Len(stack)
      /\ (Running /\ Top.pc = "await_subject" /\ ~Failed(http')) =>
           /\ calls' = calls + 1
           /\ invocations' = invocations
           /\ pending' = {Request("members", Top.targetGroupName)}
           /\ Len(stack') = Len(stack)
           /\ stack'[Len(stack')].pc = "await_members"
      /\ (Running /\ Top.pc = "await_members" /\ ~Failed(http')) =>
           /\ calls' = calls
           /\ pending' = {}
           /\ \/ Len(stack') = Len(stack) - 1 /\ invocations' = invocations
              \/ /\ Len(stack') = Len(stack) + 1
                 /\ invocations' = invocations + 1
                 /\ stack'[Len(stack)].pc = "await_chain"
    ]_vars

C19_Witness ==
  /\ Running
  /\ Len(stack) = 3
  /\ Top.pc = "enter"
  /\ effectives = 2
  /\ composites = 0
  /\ calls = 7

\* the first of the target's group-typed members, in the backend's order, that
\* is among the subject's immediate groups
FirstIntersecting ==
  LET members == rootFacts.targetGroupMembers
      i == CHOOSE j \in 1 .. Len(members) :
             /\ members[j] \in rootFacts.subjectGroups
             /\ \A k \in 1 .. j - 1 : members[k] \notin rootFacts.subjectGroups
  IN members[i]

NodeGroup(node) ==
  IF "groupName" \in DOMAIN node THEN node.groupName ELSE node.targetGroup

\* C20: when several groups are in the intersection, the tracer recurses into
\* one group only, the first intersecting one in the order of the target's
\* members, and the node it returns reports that group alone.
C20_FirstIntersectingOnly ==
  (tool = "trace_membership" /\ RootEffective /\ Cardinality(RootIntersection) >= 2) =>
    /\ Len(stack) >= 2 =>
         /\ stack[1].pc = "await_chain"
         /\ stack[1].intermediateGroups = << [name |-> FirstIntersecting] >>
         /\ stack[2].targetGroupName = FirstIntersecting
    /\ RootReturned =>
         /\ DOMAIN retval = {"type", "groupName", "intermediateGroup", "chain"}
         /\ retval.intermediateGroup = [name |-> FirstIntersecting]
         /\ Truthy(retval.chain) => NodeGroup(retval.chain) = FirstIntersecting
    /\ (Positive /\ Truthy(retval.chain)) =>
         /\ LastHop.viaGroup = FirstIntersecting
         /\ Len(Path) >= 2
         /\ Path[Len(Path) - 1].groupName = FirstIntersecting

C20_Witness ==
  /\ Positive
  /\ RootEffective
  /\ Cardinality(RootIntersection) = 2
  /\ rootFacts.targetGroupMembers = << 1, 0 >>
  /\ "chain" \in DOMAIN retval
  /\ retval.chain = ImmediateNode(1)

\* C14: a paginating tool called without pageSize whose result is chunked
\* uses the page size its input schema documents, 50.
C14_DefaultPageSizeIsDocumented ==
  (pc = "done" /\ input.kind = "page" /\ ~StrTruthy(input.pageSize)
     /\ "pagination" \in DOMAIN response.content) =>
    /\ response.content.pagination.pageSize = DocumentedPageSize
    /\ response.content.count <= DocumentedPageSize
    /\ (response.content.total >= DocumentedPageSize /\ ~StrTruthy(input.pageNumber)) =>
         response.content.count = DocumentedPageSize

\* the letters c and d are equal up to case
SameLetter(c, d) == c = d \/ {c, d} = {"a", "A"}

\* the string chars contains the string sub, case ignored
ContainsIgnoringCase(chars, sub) ==
  \E i \in 0 .. Len(chars) - Len(sub) :
    \A k \in 1 .. Len(sub) : SameLetter(chars[i + k], sub[k])

\* the i-th membership of the backend's list has a group name or a display
\* name that contains the filter, case ignored
Matching(i) ==
  LET m == SimplifyMembership(input.memberships[i])
      f == input.groupNameFilter.chars
  IN \/ m.groupName.defined /\ ContainsIgnoringCase(m.groupName.chars, f)
     \/ m.groupDisplayName.defined /\ ContainsIgnoringCase(m.groupDisplayName.chars, f)

MatchingIndices == { i \in 1 .. Len(input.memberships) : Matching(i) }

\* the k-th smallest element of a set of numbers
Nth(S, k) == CHOOSE i \in S : Cardinality({ j \in S : j < i }) = k - 1

\* the matching memberships in the backend's order
MatchingMemberships ==
  [k \in 1 .. Cardinality(MatchingIndices) |->
     SimplifyMembership(input.memberships[Nth(MatchingIndices, k)])]

Filtered == pc = "done" /\ input.kind = "memberships"

\* C15 as stated: with a filter, get_subject_memberships returns exactly the
\* memberships whose group name or display name contains the filter, case
\* ignored, in the backend's order, with the three counts; without a filter
\* the filter fields are absent.
C15_ReturnsExactlyTheMatching ==
  Filtered =>
    IF StrTruthy(input.groupNameFilter)
      THEN /\ response.content.memberships = MatchingMemberships
           /\ response.content.totalBeforeFilter = Len(input.memberships)
           /\ response.content.totalMemberships = Cardinality(MatchingIndices)
           /\ response.content.filteredOut
                = Len(input.memberships) - Cardinality(MatchingIndices)
      ELSE DOMAIN response.content
             \cap {"filterApplied", "totalBeforeFilter", "filteredOut"} = {}

\* C15 amended: the memberships returned are the matching ones in the
\* backend's order when their JSON text is at most MAX_RESPONSE_SIZE
\* characters, and their first DEFAULT_PAGE_SIZE otherwise (no page arguments
\* given); the counts are as stated in both cases, and without a filter the
\* filter fields are absent.
C15_ReturnsTheMatchingPaged ==
  Filtered =>
    IF StrTruthy(input.groupNameFilter)
      THEN /\ response.content.memberships
                = IF JsonLength(MatchingMemberships) <= MAX_RESPONSE_SIZE
                    THEN MatchingMemberships
                    ELSE SubSeq(MatchingMemberships, 1,
                                Min(DEFAULT_PAGE_SIZE, Len(MatchingMemberships)))
           /\ response.content.filterApplied = input.groupNameFilter
           /\ response.content.totalBeforeFilter = Len(input.memberships)
           /\ response.content.totalMemberships = Cardinality(MatchingIndices)
           /\ response.content.filteredOut
                = Len(input.memberships) - Cardinality(MatchingIndices)
      ELSE DOMAIN response.content
             \cap {"filterApplied", "totalBeforeFilter", "filteredOut"} = {}

\* a filter in another case than the names keeps the second of two
\* memberships and drops the first
C15_Witness ==
  /\ Filtered
  /\ StrTruthy(input.groupNameFilter)
  /\ Len(input.memberships) = 2
  /\ MatchingIndices = {2}
  /\ input.groupNameFilter.chars # toLowerCase(input.groupNameFilter.chars)
  /\ response.content.memberships = << SimplifyMembership(input.memberships[2]) >>
  /\ response.content.filteredOut = 1

\* more matching memberships than a page holds, with a long JSON text
C15_PagedWitness ==
  /\ Filtered
  /\ StrTruthy(input.groupNameFilter)
  /\ "pagination" \in DOMAIN response.content
  /\ Cardinality(MatchingIndices) > DEFAULT_PAGE_SIZE
  /\ Len(response.content.memberships) = DEFAULT_PAGE_SIZE
  /\ response.content.totalMemberships = Cardinality(MatchingIndices)

\* C16: for an immediate membership trace_membership returns a non-error
\* result naming the requested group, with membershipType 'immediate' and a
\* `paths` array whose first entry has type 'direct'.
C16_ImmediateHasDirectPath ==
  (Positive /\ rootFacts.type = "immediate") =>
    /\ ~IsError(response)
    /\ response.content.targetGroup = 0
    /\ response.content.membershipType = "immediate"
    /\ "paths" \in DOMAIN response.content
    /\ Len(response.content.paths) > 0
    /\ response.content.paths[1].type = "direct"

\* the root invocation is waiting for the trace of its intermediate group
RootAwaitsChain == Len(stack) >= 1 /\ stack[1].pc = "await_chain"

\* C21: only the members of the requested group that carry sourceId 'g:gsa'
\* are candidate intermediates: the intermediate group recursed into and
\* recorded is a group-typed member the subject is immediately in; when the
\* only members whose names the subject is in are individual subjects, no
\* intermediate is chosen; targetImmediateGroupMemberCount counts the
\* group-typed members only.
C21_OnlyGroupMembersAreCandidates ==
  /\ (tool = "trace_membership" /\ RootEffective /\ RootAwaitsChain) =>
       /\ stack[1].intermediateGroups[1].name \in RootIntersection
       /\ Len(stack) >= 2 =>
            stack[2].targetGroupName = stack[1].intermediateGroups[1].name
  /\ (RootReturned /\ RootEffective) =>
       IF "intermediateGroup" \in DOMAIN retval
         THEN retval.intermediateGroup.name \in RootIntersection
         ELSE /\ RootIntersection = {}
              /\ retval.targetImmediateGroupMemberCount
                   = Cardinality(rootFacts.targetGroups)

\* a member that is an individual subject has the name of a group the subject
\* is in, another member is a group, and no intermediate is chosen
C21_Witness ==
  /\ RootReturned
  /\ RootEffective
  /\ rootFacts.targetSubjects \cap rootFacts.subjectGroups # {}
  /\ "intermediateGroup" \notin DOMAIN retval
  /\ retval.targetImmediateGroupMemberCount = 1
  /\ Cardinality(rootFacts.targetSubjects) = 1

\* the sub-traces a node carries, in branch order, null ones left out
Children(node) ==
  IF node.type = "effective" /\ HasTruthy(node, "chain") THEN << node.chain >>
  ELSE IF node.type = "composite" /\ "leftGroup" \in DOMAIN node THEN
    (IF HasTruthy(node.leftGroup, "chain") THEN << node.leftGroup.chain >> ELSE <<>>)
    \o (IF HasTruthy(node.rightGroup, "chain") THEN << node.rightGroup.chain >> ELSE <<>>)
  ELSE <<>>

\* the hops of a sequence of nodes, one node after the other
RECURSIVE HopsOfAll(_)
HopsOfAll(nodes) ==
  IF Len(nodes) = 0 THEN <<>>
  ELSE flattenTracePath(nodes[1]).path \o HopsOfAll(Tail(nodes))

\* the hops of a non-null node are the hops of its sub-traces followed by one
\* hop that names the node's own group, and so for every node below it
RECURSIVE OwnHopLast(_)
OwnHopLast(node) ==
  LET flat == flattenTracePath(node)
      n == Len(flat.path)
  IN flat.threw
     \/ /\ n >= 1
        /\ flat.path[n].groupName = NodeGroup(node)
        /\ SubSeq(flat.path, 1, n - 1) = HopsOfAll(Children(node))
        /\ \A i \in 1 .. Len(Children(node)) : OwnHopLast(Children(node)[i])

\* C22: wherever flattenTracePath returns for a non-null node, its last hop
\* names the node's own group and the hops of the node's sub-traces precede
\* it; so the last hop of every non-empty membershipPath names the requested
\* group.
C22_OwnHopIsLast ==
  /\ (RootReturned /\ Truthy(retval)) => OwnHopLast(retval)
  /\ (Positive /\ Len(Path) > 0) => LastHop.groupName = 0

\* a path of three hops or more that starts at another group
C22_Witness ==
  /\ Positive
  /\ Truthy(retval)
  /\ Len(Path) >= 3
  /\ Path[1].groupName # 0
  /\ LastHop.groupName = 0

\* the requested group is an intersection and the subject's full membership
\* list names both of its constituents
InBoth ==
  /\ RootComposite
  /\ rootFacts.detail.compositeType = "intersection"
  /\ rootFacts.detail.leftGroup.name \in rootFacts.allGroups
  /\ rootFacts.detail.rightGroup.name \in rootFacts.allGroups

\* C23: for an intersection with the subject in both constituents both
\* branches are traced, and when the backend confirms both memberships the
\* path is all hops of the left branch, then all hops of the right branch,
\* then exactly one composite summary hop with the composite type, both
\* constituent names and both pathThrough flags true.
C23_IntersectionBothBranches ==
  /\ (RootReturned /\ InBoth) =>
       /\ "chain" \in DOMAIN retval.leftGroup
       /\ "chain" \in DOMAIN retval.rightGroup
  /\ (Positive /\ InBoth /\ Truthy(retval.leftGroup.chain)
        /\ Truthy(retval.rightGroup.chain)) =>
       /\ Path = flattenTracePath(retval.leftGroup.chain).path
                  \o flattenTracePath(retval.rightGroup.chain).path
                  \o << [groupName |-> 0, membershipType |-> "composite",
                         compositeType |-> "intersection",
                         leftGroup |-> JsString(rootFacts.detail.leftGroup.name),
                         rightGroup |-> JsString(rootFacts.detail.rightGroup.name),
                         pathThroughLeftGroup |-> TRUE,
                         pathThroughRightGroup |-> TRUE] >>
       /\ Len(flattenTracePath(retval.leftGroup.chain).path) >= 1
       /\ Len(flattenTracePath(retval.rightGroup.chain).path) >= 1

\* the left branch is an effective membership through a further group, the
\* right branch an immediate one
C23_Witness ==
  /\ Positive
  /\ InBoth
  /\ rootFacts.detail.leftGroup.name # rootFacts.detail.rightGroup.name
  /\ Truthy(retval.leftGroup.chain)
  /\ Truthy(retval.rightGroup.chain)
  /\ retval.leftGroup.chain.type = "effective"
  /\ retval.rightGroup.chain.type = "immediate"
  /\ Len(Path) = 4

\* the composite branch the invocation at stack position i is waiting for
AwaitedBranch(i) ==
  IF stack[i].pc = "await_left" THEN stack[i].compositeDetail.leftGroup.name
  ELSE stack[i].compositeDetail.rightGroup.name

\* C24: for a complement the right branch is never traced and the left branch
\* is traced iff the full membership list names leftGroup; for an intersection
\* each branch is traced iff the list names that constituent; a traced branch
\* is an invocation for that constituent at depth + 1; the isMember flags of
\* both constituents are recorded whether or not the branch is traced.
C24_BranchSelection ==
  /\ (RootReturned /\ RootComposite
        /\ rootFacts.detail.compositeType \in {"complement", "intersection"}) =>
       LET inLeft == rootFacts.detail.leftGroup.name \in rootFacts.allGroups
           inRight == rootFacts.detail.rightGroup.name \in rootFacts.allGroups
       IN /\ retval.leftGroup.isMember = inLeft
          /\ retval.rightGroup.isMember = inRight
          /\ "chain" \in DOMAIN retval.leftGroup <=> inLeft
          /\ "chain" \in DOMAIN retval.rightGroup <=>
               (rootFacts.detail.compositeType = "intersection" /\ inRight)
  /\ \A i \in 1 .. Len(stack) - 1 :
       stack[i].pc \in {"await_left", "await_right"} =>
         /\ stack[i + 1].depth = stack[i].depth + 1
         /\ stack[i + 1].targetGroupName = AwaitedBranch(i)
         /\ stack[i].pc = "await_right" =>
              /\ stack[i].result.compositeType = "intersection"
              /\ stack[i].result.rightGroup.isMember
         /\ stack[i].pc = "await_left" => stack[i].result.leftGroup.isMember

\* a complement whose right group the subject is in as well: the left branch
\* is traced, the right one is not, and both flags are recorded as true
C24_Witness ==
  /\ RootReturned
  /\ RootComposite
  /\ rootFacts.detail.compositeType = "complement"
  /\ rootFacts.detail.leftGroup.name \in rootFacts.allGroups
  /\ rootFacts.detail.rightGroup.name \in rootFacts.allGroups
  /\ "chain" \in DOMAIN retval.leftGroup
  /\ "chain" \notin DOMAIN retval.rightGroup
  /\ retval.rightGroup.isMember

\* an intersection whose right group alone the subject is in: the right
\* branch is traced, the left one is not
C24_RightOnlyWitness ==
  /\ RootReturned
  /\ RootComposite
  /\ rootFacts.detail.compositeType = "intersection"
  /\ "chain" \notin DOMAIN retval.leftGroup
  /\ "chain" \in DOMAIN retval.rightGroup
  /\ ~retval.leftGroup.isMember

\* C25: whenever every backend call of a trace succeeds, handleTraceMembership
\* returns a non-error result, whatever membership types the backend reports.
C25_SuccessfulCallsGiveNonError ==
  (TraceDone /\ ~Failed(http)) =>
    /\ outcome = "returned"
    /\ ~IsError(response)

\* the tracer's own membership fetch for the requested group reported no
\* membership, after the handler's fetch had reported one
Refetched == TraceDone /\ rootFacts.type = "absent"

\* C26: the tracer fetches the membership in the requested group again; when
\* this second fetch reports no membership, the answer is a non-error positive
\* result without isMember, with the membership type of the first fetch, an
\* empty membershipPath and the pathSummary 'No path available', after two
\* backend calls; when the second fetch reports a membership, as a backend
\* that answers identical queries identically does, every positive result has
\* a non-empty membershipPath.
C26_RefetchInconsistency ==
  /\ Refetched =>
       /\ Positive
       /\ topMembership \in MembershipTypes
       /\ response.content.membershipType = topMembership
       /\ Path = <<>>
       /\ response.content.pathSummary = [text |-> "No path available"]
       /\ "isMember" \notin DOMAIN response.content
       /\ calls = 2
       /\ invocations = 1
  /\ (Positive /\ rootFacts.type # "absent") =>
       /\ Len(Path) >= 1
       /\ response.content.pathSummary # [text |-> "No path available"]

C26_Witness ==
  /\ Refetched
  /\ topMembership = "effective"
  /\ retval = Null
  /\ Path = <<>>

\* C27: at every invocation of the tracer the visited set on entry is exactly
\* the set of target groups of the invocation's callers on the current
\* recursion path; its size is the depth, and it is empty for the outermost
\* invocation of every trace.
C27_VisitedIsAncestors ==
  Entering =>
    /\ heap[Top.visited] = OnPath
    /\ Cardinality(heap[Top.visited]) = Top.depth
    /\ Top.depth = Len(stack) - 1
    /\ Len(stack) = 1 => heap[Top.visited] = {}

\* the right branch of a composite is entered after the left branch, which
\* went through a further group, has finished
C27_Witness ==
  /\ Entering
  /\ Top.depth = 1
  /\ stack[1].pc = "await_right"
  /\ heap[Top.visited] = {0}
  /\ \E h \in 1 .. Len(heap) : Cardinality(heap[h]) >= 2

\* the number of non-null nodes of a trace tree
RECURSIVE CountNodes(_)
CountNodes(node) ==
  IF ~Truthy(node) THEN 0
  ELSE 1
       + (IF "chain" \in DOMAIN node THEN CountNodes(node.chain) ELSE 0)
       + (IF "leftGroup" \in DOMAIN node /\ "chain" \in DOMAIN node.leftGroup
            THEN CountNodes(node.leftGroup.chain) ELSE 0)
       + (IF "rightGroup" \in DOMAIN node /\ "chain" \in DOMAIN node.rightGroup
            THEN CountNodes(node.rightGroup.chain) ELSE 0)

\* an effective node whose sub-trace came back null
NullChain(node) ==
  Truthy(node) /\ node.type = "effective" /\ "chain" \in DOMAIN node
  /\ ~Truthy(node.chain)

\* C28: wherever flattenTracePath returns, it has one hop per non-null node of
\* the trace tree, so the length of membershipPath is the number of non-null
\* nodes the tracer produced, which is at most its number of invocations; an
\* effective node whose chain is null is flattened to a single hop without
\* viaGroup.
C28_OneHopPerNode ==
  /\ RootReturned =>
       \/ flattenTracePath(retval).threw
       \/ Len(flattenTracePath(retval).path) = CountNodes(retval)
  /\ Positive =>
       /\ Len(Path) = CountNodes(retval)
       /\ Len(Path) <= invocations
  /\ (RootReturned /\ NullChain(retval)) =>
       flattenTracePath(retval) = Hops(<< [groupName |-> 0, type |-> "effective"] >>)
  /\ (RootReturned /\ Truthy(retval) /\ retval.type = "effective"
        /\ HasTruthy(retval, "chain") /\ NullChain(retval.chain)
        /\ ~flattenTracePath(retval).threw) =>
       /\ Len(flattenTracePath(retval).path) = 2
       /\ "viaGroup" \notin DOMAIN flattenTracePath(retval).path[1]

\* the intermediate group's own membership fetch reported no membership
C28_Witness ==
  /\ Positive
  /\ NullChain(retval)
  /\ invocations = 2
  /\ Len(Path) = 1
  /\ "viaGroup" \notin DOMAIN Path[1]

\* a tree of four nodes, and as many hops
C28_TreeWitness ==
  /\ Positive
  /\ CountNodes(retval) = 4
  /\ Len(Path) = 4

\* C29: an invocation of the tracer at depth 6 returns max_depth_reached for
\* its group without a backend call, also when the group is in its visited
\* set; a trace that meets effective memberships only has issued at most
\* 1 + 3*6 = 19 backend calls; every invocation issues at most three calls,
\* and no invocation is deeper than 6.
C29_DepthCheckFirst ==
  [][ /\ (Entering /\ Top.depth > MAX_DEPTH) =>
           /\ Top.depth = MAX_DEPTH + 1
           /\ retval' = [type |-> "max_depth_reached",
                         targetGroup |-> Top.targetGroupName]
           /\ stack' = Pop(stack)
           /\ calls' = calls
           /\ pending' = pending
      /\ composites' = 0 => calls' <= 1 + 3 * (MAX_DEPTH + 1)
      /\ tool' = "trace_membership" => calls' <= 1 + 3 * invocations'
      /\ Len(stack') <= MAX_DEPTH + 2 ]_vars

\* effective memberships at the depths 0 to 5, 19 calls, and the invocation at
\* depth 6 was for a group in its visited set
C29_Witness ==
  /\ Running
  /\ Top.pc = "await_chain"
  /\ Top.depth = MAX_DEPTH
  /\ retval = [type |-> "max_depth_reached",
               targetGroup |-> Top.intermediateGroups[1].name]
  /\ retval.targetGroup \in heap[Top.visited]
  /\ calls = 1 + 3 * (MAX_DEPTH + 1)

Paged == pc = "done" /\ input.kind = "page"

\* the length of the JSON text of the input list, whose items have JSON texts
\* of one length: the brackets, the items and the commas between them
SerializedSize ==
  IF Len(input.items) = 0 THEN 2
  ELSE Len(input.items) * (input.items[1].jsonLength + 1) + 1

\* the least number of pages of s items that hold n items
PagesFor(n, s) == CHOOSE k \in 0 .. n : k * s >= n /\ (k - 1) * s < n

\* the items of page p when the caller asks for it as the pagination info
\* instructs, with the same pageSize argument
PageItems(p) == chunkResults(input.items, Str(ToDigits(p)), input.pageSize).items

RECURSIVE PagesUpTo(_)
PagesUpTo(p) == IF p = 0 THEN <<>> ELSE PagesUpTo(p - 1) \o PageItems(p)

\* C30: totalItems is the full count; a list whose JSON text is at most 50000
\* characters is returned whole with no pagination info, whatever pageNumber
\* and pageSize; a longer list is chunked, and with page size s >= 1 and
\* totalPages = ceil(totalItems / s): page p of 1..totalPages is the items
\* (p-1)*s+1 .. min(p*s, totalItems), at least one and at most s; the pages
\* 1..totalPages one after the other are the full list; hasNextPage holds iff
\* page < totalPages, nextPage is page + 1 then and null otherwise;
\* hasPreviousPage holds iff page > 1.
C30_PagesPartitionTheList ==
  Paged =>
    LET items == input.items
        n == Len(items)
        content == response.content
    IN /\ content.total = n
       /\ content.count = Len(content.items)
       /\ IF SerializedSize <= MAX_RESPONSE_SIZE
            THEN /\ content.items = items
                 /\ "pagination" \notin DOMAIN content
            ELSE /\ "pagination" \in DOMAIN content
                 /\ LET info == content.pagination
                        s == info.pageSize
                        p == info.currentPage
                        T == PagesFor(n, s)
                    IN /\ info.totalItems = n
                       /\ ~StrTruthy(input.pageNumber) => p = 1
                       /\ info.hasPreviousPage <=> p > 1
                       /\ info.previousPage = IF p > 1 THEN JsNumber(p - 1) ELSE Null
                       /\ s >= 1 =>
                            /\ info.totalPages = JsNumber(T)
                            /\ info.hasNextPage <=> p < T
                            /\ info.nextPage = IF p < T THEN JsNumber(p + 1) ELSE Null
                            /\ p \in 1 .. T =>
                                 /\ content.items
                                      = [i \in 1 .. Min(s, n - (p - 1) * s) |->
                                           items[(p - 1) * s + i]]
                                 /\ content.count \in 1 .. s
                                 /\ content.items = PageItems(p)
                            /\ p \notin 1 .. T => content.items = <<>>
                            /\ PagesUpTo(T) = items
                            /\ \A q \in 1 .. T : Len(PageItems(q)) \in 1 .. s

\* the last page of three, shorter than the page size
C30_Witness ==
  /\ Paged
  /\ "pagination" \in DOMAIN response.content
  /\ response.content.pagination.pageSize = 25
  /\ response.content.pagination.currentPage = 3
  /\ response.content.pagination.totalPages = JsNumber(3)
  /\ response.content.total = 60
  /\ response.content.count = 10
  /\ ~response.content.pagination.hasNextPage
  /\ response.content.pagination.hasPreviousPage

\* a list that is not chunked, asked for by page
C30_WholeWitness ==
  /\ Paged
  /\ input.pageNumber = Str(<< "2" >>)
  /\ input.pageSize = Str(<< "2" >>)
  /\ "pagination" \notin DOMAIN response.content
  /\ response.content.count > DEFAULT_PAGE_SIZE

====
